---------------------------- MODULE Spec2Model ----------------------------
(***************************************************************************)
(* pg-migrations (migrations.go): a command line tool that registers the   *)
(* SQL files of a directory in the schema_migrations table (the ledger)    *)
(* and applies them to the target database.                                *)
(*                                                                         *)
(* Strings are sequences of one-character strings, so that the file name   *)
(* parsing of GetFileDetails is computed as the code computes it.          *)
(***************************************************************************)
EXTENDS Integers, Sequences, FiniteSets, TLC

(***************************************************************************)
(* Bounds of the model.                                                    *)
(***************************************************************************)
\* largest number of entries under the migration directory
MaxFiles == 3
\* largest surrogate id the ledger's serial hands out
MaxId == 4
\* largest number of ledger updates lost to a fault (SpecFault only)
MaxFaults == 1

(***************************************************************************)
(* Strings.                                                                *)
(***************************************************************************)
\* byte value of the characters the model's file names are made of
Code(c) ==
  CASE c = "+" -> 43 [] c = "-" -> 45 [] c = "." -> 46 [] c = "/" -> 47
    [] c = "0" -> 48 [] c = "1" -> 49 [] c = "2" -> 50 [] c = "3" -> 51
    [] c = "4" -> 52 [] c = "5" -> 53 [] c = "6" -> 54 [] c = "7" -> 55
    [] c = "8" -> 56 [] c = "9" -> 57
    [] c = "V" -> 86 [] c = "X" -> 88 [] c = "_" -> 95
    [] c = "a" -> 97 [] c = "b" -> 98 [] c = "c" -> 99 [] c = "d" -> 100
    [] c = "l" -> 108 [] c = "n" -> 110 [] c = "o" -> 111 [] c = "p" -> 112
    [] c = "q" -> 113 [] c = "r" -> 114 [] c = "s" -> 115 [] c = "t" -> 116
    [] c = "u" -> 117 [] c = "w" -> 119 [] c = "x" -> 120 [] c = "z" -> 122

Digits == {"0", "1", "2", "3", "4", "5", "6", "7", "8", "9"}

DigitVal(c) == Code(c) - 48

\* s[from..] (Go: s[from-1:] with 1-based from)
Drop(s, n) == SubSeq(s, n + 1, Len(s))

HasPrefix(s, p) == Len(p) <= Len(s) /\ SubSeq(s, 1, Len(p)) = p

\* strings.Split(s, sep) for a non-empty sep: the pieces between the
\* non-overlapping occurrences of sep, found left to right
RECURSIVE SplitFrom(_, _, _)
SplitFrom(s, sep, acc) ==
  IF s = <<>> THEN <<acc>>
  ELSE IF HasPrefix(s, sep)
       THEN <<acc>> \o SplitFrom(Drop(s, Len(sep)), sep, <<>>)
       ELSE SplitFrom(Tail(s), sep, Append(acc, Head(s)))

Split(s, sep) == SplitFrom(s, sep, <<>>)

\* value of a string of decimal digits
RECURSIVE DigitsVal(_, _)
DigitsVal(s, acc) ==
  IF s = <<>> THEN acc ELSE DigitsVal(Tail(s), 10 * acc + DigitVal(Head(s)))

\* strconv.Atoi: an optional sign followed by at least one decimal digit
Atoi(s) ==
  LET signed == s # <<>> /\ Head(s) \in {"+", "-"}
      body   == IF signed THEN Tail(s) ELSE s
  IN  IF body = <<>> \/ \E i \in 1..Len(body) : body[i] \notin Digits
      THEN [ok |-> FALSE, val |-> 0]
      ELSE [ok |-> TRUE,
            val |-> IF signed /\ Head(s) = "-" THEN 0 - DigitsVal(body, 0)
                    ELSE DigitsVal(body, 0)]

\* byte-wise order of two strings
RECURSIVE StrLess(_, _)
StrLess(s, t) ==
  IF t = <<>> THEN FALSE
  ELSE IF s = <<>> THEN TRUE
  ELSE IF Head(s) = Head(t) THEN StrLess(Tail(s), Tail(t))
  ELSE Code(Head(s)) < Code(Head(t))

(***************************************************************************)
(* The migration directory.  A path is named by a string; Chars gives its  *)
(* characters.                                                             *)
(***************************************************************************)
Root == "r"

Name_V1 == <<"V", "1", "_", "_", "a">>
Name_V2 == <<"V", "2", "_", "_", "b">>
Ext_up == <<".", "u", "p", ".", "s", "q", "l">>
Ext_down == <<".", "d", "o", "w", "n", ".", "s", "q", "l">>

InRoot(name) == <<"r", "/">> \o name

\* the files a migration directory of the model is made of
Catalogue ==
  { "r/V1__a.up.sql", "r/V1__a.down.sql", "r/V2__b.up.sql",
    "r/V2__b.down.sql",
    \* same (version, direction) as V1__a.up.sql
    "r/V1__z.up.sql",
    \* one double-underscore segment only
    "r/V2.up.sql",
    \* two dot segments only
    "r/V3__a.sql" }

\* a directory below the root and a file in it
Below == {"r/s", "r/s/V3__c.up.sql"}

Chars(path) ==
  CASE path = "r" -> <<"r">>
    [] path = "r/s" -> InRoot(<<"s">>)
    [] path = "r/s/V3__c.up.sql" ->
         InRoot(<<"s", "/", "V", "3", "_", "_", "c">> \o Ext_up)
    [] path = "r/V1__a.up.sql" -> InRoot(Name_V1 \o Ext_up)
    [] path = "r/V1__a.down.sql" -> InRoot(Name_V1 \o Ext_down)
    [] path = "r/V2__b.up.sql" -> InRoot(Name_V2 \o Ext_up)
    [] path = "r/V2__b.down.sql" -> InRoot(Name_V2 \o Ext_down)
    [] path = "r/V1__z.up.sql" -> InRoot(<<"V", "1", "_", "_", "z">> \o Ext_up)
    [] path = "r/V2.up.sql" -> InRoot(<<"V", "2">> \o Ext_up)
    [] path = "r/V3__a.sql" ->
         InRoot(<<"V", "3", "_", "_", "a", ".", "s", "q", "l">>)

\* the paths that are directories
Directories == {Root, "r/s"}

\* order in which filepath.Walk visits two paths: lexical by name inside a
\* directory, a directory before its content
RECURSIVE CompLess(_, _)
CompLess(a, b) ==
  IF b = <<>> THEN FALSE
  ELSE IF a = <<>> THEN TRUE
  ELSE IF Head(a) = Head(b) THEN CompLess(Tail(a), Tail(b))
  ELSE StrLess(Head(a), Head(b))

WalkLess(p, q) ==
  CompLess(Split(Chars(p), <<"/">>), Split(Chars(q), <<"/">>))

\* filepath.Walk(root): the root, then every entry below it, in walk order
RECURSIVE WalkSort(_)
WalkSort(paths) ==
  IF paths = {} THEN <<>>
  ELSE LET first == CHOOSE p \in paths : \A q \in paths \ {p} : WalkLess(p, q)
       IN  <<first>> \o WalkSort(paths \ {first})

\* the walk order of all the paths of the model
WalkOrder == WalkSort(Catalogue \cup Below)

Walk(entries) == <<Root>> \o SelectSeq(WalkOrder, LAMBDA p : p \in entries)

(***************************************************************************)
(* GetFileDetails: the Reader.                                             *)
(***************************************************************************)
\* GetFileDetails after the file is read: the path, whose characters are
\* chars, is taken apart.  fileStrs[0][1:] panics on an empty version token
ParseFileName(chars, filePath) ==
  LET bySlash   == Split(chars, <<"/">>)
      byDot     == Split(bySlash[Len(bySlash)], <<".">>)
      byUnder   == Split(byDot[1], <<"_", "_">>)
      version   == Atoi(Drop(byUnder[1], 1))
      fail(k)   == [kind |-> k, Version |-> 0, Description |-> <<>>,
                    MigrationType |-> "", FilePath |-> filePath]
  IN  IF Len(byDot) # 3 THEN fail("invalid")
      ELSE IF byDot[2] \notin {<<"u", "p">>, <<"d", "o", "w", "n">>}
           THEN fail("invalid")
      ELSE IF Len(byUnder) # 2 THEN fail("invalid")
      ELSE IF byUnder[1] = <<>> THEN fail("panic")
      ELSE IF ~version.ok THEN fail("invalid")
      ELSE [kind |-> "ok", Version |-> version.val,
            Description |-> byUnder[2],
            MigrationType |-> IF byDot[2] = <<"u", "p">> THEN "UPGRADE"
                              ELSE "DOWNGRADE",
            FilePath |-> filePath]

\* the details of a path of the model
FileNameDetails(filePath) == ParseFileName(Chars(filePath), filePath)

\* FileNameDetails of every path of the model
DetailsOf ==
  [p \in Catalogue \cup Below \cup Directories |-> FileNameDetails(p)]

\* ioutil.ReadFile fails on a directory and on a path that is not there
GetFileDetails(filePath, entries) ==
  IF filePath \notin entries \ Directories
  THEN [kind |-> "io", Version |-> 0, Description |-> <<>>,
        MigrationType |-> "", FilePath |-> filePath]
  ELSE DetailsOf[filePath]

\* strconv.Itoa
RECURSIVE Itoa(_)
Itoa(n) ==
  IF n < 0 THEN <<"-">> \o Itoa(0 - n)
  ELSE LET last1 == <<CHOOSE c \in Digits : DigitVal(c) = n % 10>>
       IN  IF n < 10 THEN last1 ELSE Itoa(n \div 10) \o last1

\* the file name the convention of the header comment gives the fields of d
FileNameOf(d) ==
  <<"V">> \o Itoa(d.Version) \o <<"_", "_">> \o d.Description
    \o (IF d.MigrationType = "UPGRADE" THEN Ext_up ELSE Ext_down)

(***************************************************************************)
(* State.                                                                  *)
(***************************************************************************)
VARIABLES
  dir,       \* entries below the migration directory
  ledger,    \* rows of the schema_migrations table, in insertion order
  nextId,    \* next value of the table's serial id
  target,    \* the target database: how many times it committed the batch
             \* of each record id
  pc,        \* position of the running process: "idle" (none), "apply"
             \* (in the loop over batch), "update" (in ApplyMigration, the
             \* batch executed), "done" (about to exit)
  cmd,       \* conf.Command of the running process
  batch,     \* records still to apply (the slice being ranged over)
  cur,       \* ApplyMigration: the record being applied
  execErr,   \* ApplyMigration: err of ApplySchemaMigration
  ret,       \* what the last ApplyMigration returned
  err,       \* the error the command ended with
  exit,      \* exit status of the process
  out,       \* result of GetCurrentVersion in this run
  executed,  \* ids handed to ApplySchemaMigration in this run, in order
  ledger0,   \* the ledger when this run started
  snap,      \* the ledger when this run fetched its batch (for up: after
             \* its reconciliation)
  lost,      \* per record id, the ledger updates lost after a commit
  faults,    \* number of faults injected so far
  prev,      \* set when the command of the run that just finished is being
             \* run again at once: that command, the directory it ran
             \* over and, for up, whether its reconciliation returned nil
  target0,   \* the target database when this run started
  created,   \* whether the schema_migrations table exists
  reader     \* a call of GetFileDetails on its own: the name of the file it
             \* is given, whether it was called, and what it gave

vars == <<dir, ledger, nextId, target, pc, cmd, batch, cur, execErr, ret,
          err, exit, out, executed, ledger0, snap, lost, faults, prev,
          target0, created, reader>>

\* A time is named by the call that read the clock: "insert" (AddEntryToDB)
\* or "update" (UpdateSchemaMigration); an execution time is "zero" or
\* "elapsed" (the seconds ApplyMigration measured).
NoRecord ==
  [ID |-> 0, Version |-> 0, Description |-> <<>>, MigrationType |-> "",
   FilePath |-> "", ExecutionTime |-> "zero", Processed |-> FALSE,
   Success |-> FALSE, Error |-> "", CreatedAt |-> "", UpdatedAt |-> ""]

\* the row AddEntryToDB builds from the file details d
NewRecord(id, d) ==
  [ID |-> id, Version |-> d.Version, Description |-> d.Description,
   MigrationType |-> d.MigrationType, FilePath |-> d.FilePath,
   ExecutionTime |-> "zero", Processed |-> FALSE, Success |-> FALSE,
   Error |-> "", CreatedAt |-> "insert", UpdatedAt |-> "insert"]

NoVersion == [found |-> FALSE, rec |-> NoRecord]

\* no run is being repeated
NoReconcile == [set |-> FALSE, cmd |-> "", dir |-> {}, ok |-> FALSE]

NoDetails ==
  [kind |-> "", Version |-> 0, Description |-> <<>>, MigrationType |-> "",
   FilePath |-> ""]

NoRead == [name |-> <<>>, read |-> FALSE, details |-> NoDetails]

\* the errors AddNewSchemaMigrations returns
ReconcileErrors == {"invalid", "io", "duplicate", "panic"}

Reverse(s) == [i \in 1..Len(s) |-> s[Len(s) + 1 - i]]

Range(s) == {s[i] : i \in 1..Len(s)}

Ids == 1..MaxId

Zero == [id \in Ids |-> 0]

(***************************************************************************)
(* SchemaMigrationDao: the queries on the ledger.                          *)
(***************************************************************************)
\* mutant: the path is compared with the wrong column
Mut_CountByDescription(l, filePath) ==
  Cardinality({i \in 1..Len(l) : l[i].Description = filePath})

\* SELECT count(*) WHERE file_path = ?
CountSchemaMigrationForFilePath(l, filePath) ==
  Cardinality({i \in 1..Len(l) : l[i].FilePath = filePath})

\* mutant: the record is inserted as already succeeded
Mut_AddAsSucceeded(l, id, d) ==
  IF \E i \in 1..Len(l) : /\ l[i].Version = d.Version
                           /\ l[i].MigrationType = d.MigrationType
  THEN [ok |-> FALSE, ledger |-> l]
  ELSE [ok |-> TRUE,
        ledger |-> Append(l, [NewRecord(id, d) EXCEPT !.Success = TRUE])]

\* mutant: the table has no unique index on (version, migration_type)
Mut_AddWithoutUniqueIndex(l, id, d) ==
  [ok |-> TRUE, ledger |-> Append(l, NewRecord(id, d))]

\* INSERT: the unique index idx_unique_schema_version_migration_type on
\* (version, migration_type) rejects a second row of the pair; the serial
\* value drawn for the rejected row is not given back
AddSchemaMigration(l, id, d) ==
  IF \E i \in 1..Len(l) : /\ l[i].Version = d.Version
                           /\ l[i].MigrationType = d.MigrationType
  THEN [ok |-> FALSE, ledger |-> l]
  ELSE [ok |-> TRUE, ledger |-> Append(l, NewRecord(id, d))]

\* mutant: the processed = false condition is missing
Mut_FetchIgnoresProcessed(l, migrationType, order) ==
  LET rows == SelectSeq(l, LAMBDA r : r.MigrationType = migrationType)
  IN  IF order = "id ASC" THEN rows ELSE Reverse(rows)

\* mutant: the migration_type condition is missing
Mut_FetchAnyDirection(l, migrationType, order) ==
  LET rows == SelectSeq(l, LAMBDA r : ~r.Processed)
  IN  IF order = "id ASC" THEN rows ELSE Reverse(rows)

\* WHERE processed = false and migration_type = ? ORDER BY id ASC | DESC
\* (the rows of l are in ascending id order)
FetchUnProcessedSchemaMigrations(l, migrationType, order) ==
  LET rows == SelectSeq(l, LAMBDA r : /\ ~r.Processed
                                      /\ r.MigrationType = migrationType)
  IN  IF order = "id ASC" THEN rows ELSE Reverse(rows)

\* the columns UpdateSchemaMigration names in its UPDATE
columns == {"execution_time", "processed", "success", "error"}

\* UPDATE SET <the columns cols> WHERE id = ?, the values taken from the
\* struct sm (an empty error is stored as NULL)
Update(l, ID, cols, sm) ==
  [i \in 1..Len(l) |->
     IF l[i].ID # ID THEN l[i]
     ELSE [l[i] EXCEPT
             !.ExecutionTime =
               IF "execution_time" \in cols THEN sm.ExecutionTime ELSE @,
             !.Processed = IF "processed" \in cols THEN sm.Processed ELSE @,
             !.Success = IF "success" \in cols THEN sm.Success ELSE @,
             !.Error = IF "error" \in cols THEN sm.Error ELSE @,
             !.UpdatedAt = IF "updated_at" \in cols THEN sm.UpdatedAt ELSE @]]

\* the struct UpdateSchemaMigration fills in
SchemaMigration(ID, executionTime, processed, success, e) ==
  [NoRecord EXCEPT !.ID = ID, !.ExecutionTime = executionTime,
                   !.Processed = processed, !.Success = success,
                   !.UpdatedAt = "update", !.Error = e]

\* mutant: the processed column is not in the updated columns
Mut_UpdateLeavesOutstanding(l, ID, executionTime, processed, success, e) ==
  Update(l, ID, columns \ {"processed"},
         SchemaMigration(ID, executionTime, processed, success, e))

\* mutant: the error column is not in the updated columns
Mut_UpdateDropsError(l, ID, executionTime, processed, success, e) ==
  Update(l, ID, columns \ {"error"},
         SchemaMigration(ID, executionTime, processed, success, e))

\* UPDATE SET execution_time, processed, success, error WHERE id = ?
UpdateSchemaMigration(l, ID, executionTime, processed, success, e) ==
  Update(l, ID, columns,
         SchemaMigration(ID, executionTime, processed, success, e))

\* WHERE id = ? and processed = false and migration_type = ?, the id being
\* the version the caller passes
FetchUnProcessedSchemaMigrationBasedOnVersionAndType(l, ID, migrationType) ==
  LET rows == SelectSeq(l, LAMBDA r : /\ r.ID = ID
                                      /\ ~r.Processed
                                      /\ r.MigrationType = migrationType)
  IN  IF rows = <<>> THEN NoVersion ELSE [found |-> TRUE, rec |-> rows[1]]

\* WHERE processed = true and migration_type = 'UPGRADE'
\* ORDER BY id DESC LIMIT 1
GetCurrentVersion(l) ==
  LET rows == SelectSeq(l, LAMBDA r : /\ r.Processed
                                      /\ r.MigrationType = "UPGRADE")
  IN  IF rows = <<>> THEN NoVersion
      ELSE [found |-> TRUE, rec |-> rows[Len(rows)]]

(***************************************************************************)
(* Init: an empty directory and a database without the ledger table.       *)
(***************************************************************************)
Init ==
  /\ dir = {}
  /\ ledger = <<>>
  /\ nextId = 1
  /\ target = Zero
  /\ pc = "idle"
  /\ cmd = ""
  /\ batch = <<>>
  /\ cur = NoRecord
  /\ execErr = "nil"
  /\ ret = "nil"
  /\ err = "nil"
  /\ exit = 0
  /\ out = NoVersion
  /\ executed = <<>>
  /\ ledger0 = <<>>
  /\ snap = <<>>
  /\ lost = Zero
  /\ faults = 0
  /\ prev = NoReconcile
  /\ target0 = Zero
  /\ created = FALSE
  /\ reader = NoRead

\* a migration file is put into the directory between two runs
AddFile ==
  /\ pc = "idle"
  /\ Cardinality(dir) < MaxFiles
  /\ ~prev.set
  /\ \E e \in Catalogue \ dir : dir' = dir \cup {e}
  /\ UNCHANGED <<ledger, nextId, target, pc, cmd, batch, cur, execErr, ret,
                 err, exit, out, executed, ledger0, snap, lost, faults,
                 prev, target0, created, reader>>

\* main: a process starts with the given command; createSchemaForMigration
\* creates the ledger table if it is not there
Begin(c) ==
  /\ pc = "idle"
  /\ prev.set => prev.cmd = c
  /\ cmd' = c
  /\ created' = TRUE
  /\ ledger0' = ledger
  /\ target0' = target
  /\ UNCHANGED <<dir, target, lost, faults, executed, cur, execErr, ret,
                 prev, reader>>

\* the process ends, p telling whether the same command follows at once
Ends(p) ==
  /\ pc = "done"
  /\ pc' = "idle"
  /\ cmd' = ""
  /\ batch' = <<>>
  /\ cur' = NoRecord
  /\ execErr' = "nil"
  /\ ret' = "nil"
  /\ err' = "nil"
  /\ exit' = 0
  /\ out' = NoVersion
  /\ executed' = <<>>
  /\ ledger0' = <<>>
  /\ snap' = <<>>
  /\ prev' = p
  /\ target0' = Zero
  /\ UNCHANGED <<dir, ledger, nextId, target, lost, faults, created, reader>>

\* the process ends and anything can follow
Exit == Ends(NoReconcile)

\* the process ends and the same command is run again over the same
\* directory
RunAgain ==
  Ends([set |-> TRUE, cmd |-> cmd, dir |-> dir,
        ok |-> cmd = "up" /\ err \notin ReconcileErrors])

(***************************************************************************)
(* version                                                                 *)
(***************************************************************************)
getCurrentVersion ==
  /\ Begin("version")
  /\ out' = GetCurrentVersion(ledger)
  /\ err' = IF out'.found THEN "nil" ELSE "notfound"
  /\ pc' = "done"
  /\ snap' = ledger
  /\ UNCHANGED <<ledger, nextId, batch, exit>>

\* mutant: the default branch falls into the work of reset
Mut_DefaultRunsReset ==
  /\ Begin("other")
  /\ err' = "usage"
  /\ batch' = FetchUnProcessedSchemaMigrations(ledger, "DOWNGRADE", "id DESC")
  /\ pc' = "apply"
  /\ snap' = ledger
  /\ UNCHANGED <<ledger, nextId, out, exit>>

\* default branch of the switch
Unrecognized ==
  /\ Begin("other")
  /\ err' = "usage"
  /\ pc' = "done"
  /\ snap' = ledger
  /\ UNCHANGED <<ledger, nextId, batch, out, exit>>

(***************************************************************************)
(* up: upgradeMigration, syncLatestMigrations, AddNewSchemaMigrations      *)
(***************************************************************************)
\* the loop over the walked paths fs, AddEntryToDB included: the ledger
\* and the serial it leaves, and the error it returns
RECURSIVE AddNewSchemaMigrations(_, _, _, _)
AddNewSchemaMigrations(fs, l, nid, entries) ==
  IF fs = <<>> THEN [ledger |-> l, nextId |-> nid, err |-> "nil"]
  ELSE LET filePath == Head(fs)
           d        == GetFileDetails(filePath, entries)
           ins      == AddSchemaMigration(l, nid, d)
       IN  IF \/ filePath = Root
              \/ CountSchemaMigrationForFilePath(l, filePath) = 1
           THEN AddNewSchemaMigrations(Tail(fs), l, nid, entries)
           ELSE IF d.kind # "ok"
           THEN [ledger |-> l, nextId |-> nid, err |-> d.kind]
           ELSE IF ~ins.ok
           THEN [ledger |-> l, nextId |-> nid + 1, err |-> "duplicate"]
           ELSE AddNewSchemaMigrations(Tail(fs), ins.ledger, nid + 1, entries)

Unregistered ==
  {p \in dir : CountSchemaMigrationForFilePath(ledger, p) # 1}

\* upgradeMigration and syncLatestMigrations up to the loop: the directory
\* is reconciled and the outstanding upgrades are fetched
upgradeMigration ==
  /\ Begin("up")
  /\ nextId + Cardinality(Unregistered) <= MaxId + 1
  /\ \E rec \in {AddNewSchemaMigrations(Walk(dir), ledger, nextId, dir)} :
         /\ ledger' = rec.ledger
         /\ nextId' = rec.nextId
         /\ snap' = rec.ledger
         /\ err' = rec.err
         /\ exit' = IF rec.err = "panic" THEN 2 ELSE 0
         /\ IF rec.err # "nil"
            THEN /\ pc' = "done"
                 /\ UNCHANGED batch
            ELSE /\ pc' = "apply"
                 /\ batch' = FetchUnProcessedSchemaMigrations(
                               rec.ledger, "UPGRADE", "id ASC")
  /\ UNCHANGED out

(***************************************************************************)
(* down and reset                                                          *)
(***************************************************************************)
\* downgradeMigration up to the call of ApplyMigration in revertMigration
downgradeMigration ==
  /\ Begin("down")
  /\ out' = GetCurrentVersion(ledger)
  /\ LET sm == FetchUnProcessedSchemaMigrationBasedOnVersionAndType(
                 ledger, out'.rec.Version, "DOWNGRADE")
     IN  IF ~out'.found
         THEN /\ err' = "notfound"
              /\ exit' = 1
              /\ pc' = "done"
              /\ UNCHANGED batch
         ELSE IF ~sm.found
         THEN /\ err' = "notfound"
              /\ pc' = "done"
              /\ UNCHANGED <<batch, exit>>
         ELSE /\ batch' = <<sm.rec>>
              /\ pc' = "apply"
              /\ UNCHANGED <<err, exit>>
  /\ snap' = ledger
  /\ UNCHANGED <<ledger, nextId>>

\* revertAll up to its loop
revertAll ==
  /\ Begin("reset")
  /\ batch' = FetchUnProcessedSchemaMigrations(ledger, "DOWNGRADE", "id DESC")
  /\ pc' = "apply"
  /\ snap' = ledger
  /\ UNCHANGED <<ledger, nextId, err, out, exit>>

(***************************************************************************)
(* ApplyMigration                                                          *)
(***************************************************************************)
\* ApplySchemaMigration on the next record of the loop: the batch runs in
\* one transaction, committed when it executes and rolled back when not.
\* The transaction is taken to begin, and to commit when asked to.
ApplySchemaMigration ==
  /\ pc = "apply"
  /\ batch # <<>>
  /\ cur' = Head(batch)
  /\ batch' = Tail(batch)
  /\ executed' = Append(executed, cur'.ID)
  /\ \E ok \in BOOLEAN :
       /\ execErr' = IF ok THEN "nil" ELSE "exec"
       /\ target' = IF ok THEN [target EXCEPT ![cur'.ID] = @ + 1] ELSE target
  /\ pc' = "update"
  /\ UNCHANGED <<dir, ledger, nextId, cmd, ret, err, exit, out,
                 ledger0, snap, lost, faults, prev, target0, created,
                 reader>>

\* mutant: every loop logs the error and goes on
Mut_ReturnedAlwaysGoesOn(r) ==
  /\ ret' = r
  /\ cur' = NoRecord
  /\ execErr' = "nil"
  /\ pc' = "apply"
  /\ err' = IF r # "nil" THEN r ELSE err

\* mutant: every loop returns the error
Mut_ReturnedAlwaysStops(r) ==
  /\ ret' = r
  /\ cur' = NoRecord
  /\ execErr' = "nil"
  /\ IF r # "nil"
     THEN /\ pc' = "done"
          /\ err' = r
     ELSE /\ pc' = "apply"
          /\ err' = err

\* what the caller's loop does with the value r ApplyMigration returned:
\* up and down return it, reset logs it and goes on
Returned(r) ==
  /\ ret' = r
  /\ cur' = NoRecord
  /\ execErr' = "nil"
  /\ IF r # "nil" /\ cmd \in {"up", "down"}
     THEN /\ pc' = "done"
          /\ err' = r
     ELSE /\ pc' = "apply"
          /\ err' = IF r # "nil" THEN r ELSE err

\* the rest of ApplyMigration: the outcome is written to the ledger
ApplyMigration ==
  /\ pc = "update"
  /\ ledger' =
       IF execErr # "nil"
       THEN UpdateSchemaMigration(ledger, cur.ID, "elapsed", TRUE, FALSE,
                                  execErr)
       ELSE UpdateSchemaMigration(ledger, cur.ID, "elapsed", TRUE, TRUE, "")
  /\ Returned(execErr)
  /\ UNCHANGED <<dir, nextId, target, cmd, batch, exit, out, executed,
                 ledger0, snap, lost, faults, prev, target0, created,
                 reader>>

\* the loop over the batch is over
LoopEnd ==
  /\ pc = "apply"
  /\ batch = <<>>
  /\ pc' = "done"
  /\ UNCHANGED <<dir, ledger, nextId, target, cmd, batch, cur, execErr,
                 ret, err, exit, out, executed, ledger0, snap, lost, faults,
                 prev, target0, created, reader>>

(***************************************************************************)
(* Faults of the ledger store and of the process.                          *)
(***************************************************************************)
LostAfter ==
  IF execErr = "nil" THEN [lost EXCEPT ![cur.ID] = @ + 1] ELSE lost

\* UpdateSchemaMigration returns an error: it is dropped after a failed
\* execution and returned after a successful one
UpdateFails ==
  /\ pc = "update"
  /\ faults < MaxFaults
  /\ faults' = faults + 1
  /\ lost' = LostAfter
  /\ Returned(IF execErr # "nil" THEN execErr ELSE "update")
  /\ UNCHANGED <<dir, ledger, nextId, target, cmd, batch, exit, out,
                 executed, ledger0, snap, prev, target0, created,
                 reader>>

\* the process stops between ApplySchemaMigration and UpdateSchemaMigration
Crash ==
  /\ pc = "update"
  /\ faults < MaxFaults
  /\ faults' = faults + 1
  /\ lost' = LostAfter
  /\ pc' = "done"
  /\ err' = "killed"
  /\ exit' = 2
  /\ UNCHANGED <<dir, ledger, nextId, target, cmd, batch, cur, execErr,
                 ret, out, executed, ledger0, snap, prev, target0, created,
                 reader>>

(***************************************************************************)
(* Specifications.                                                         *)
(***************************************************************************)
Next ==
  \/ AddFile
  \/ getCurrentVersion
  \/ Unrecognized
  \/ upgradeMigration
  \/ downgradeMigration
  \/ revertAll
  \/ ApplySchemaMigration
  \/ ApplyMigration
  \/ LoopEnd
  \/ Exit

NextAgain ==
  \/ Next
  \/ RunAgain

\* every ledger update succeeds and no process is stopped
Spec == Init /\ [][NextAgain]_vars

NextFault ==
  \/ Next
  \/ UpdateFails
  \/ Crash

\* ledger updates can fail and a process can stop before its ledger update
SpecFault == Init /\ [][NextFault]_vars

(***************************************************************************)
(* Faults of the transaction on the target database.                       *)
(***************************************************************************)
\* ApplySchemaMigration when db.Begin fails: its error is dropped, tx is
\* nil and tx.Exec panics
BeginFails ==
  /\ pc = "apply"
  /\ batch # <<>>
  /\ faults < MaxFaults
  /\ faults' = faults + 1
  /\ cur' = Head(batch)
  /\ batch' = Tail(batch)
  /\ executed' = Append(executed, cur'.ID)
  /\ pc' = "done"
  /\ err' = "panic"
  /\ exit' = 2
  /\ UNCHANGED <<dir, ledger, nextId, target, cmd, execErr, ret, out,
                 ledger0, snap, lost, prev, target0, created, reader>>

\* ApplySchemaMigration when the batch executes and tx.Commit fails: the
\* error of Commit is dropped and nil is returned
CommitFails ==
  /\ pc = "apply"
  /\ batch # <<>>
  /\ faults < MaxFaults
  /\ faults' = faults + 1
  /\ cur' = Head(batch)
  /\ batch' = Tail(batch)
  /\ executed' = Append(executed, cur'.ID)
  /\ execErr' = "nil"
  /\ pc' = "update"
  /\ UNCHANGED <<dir, ledger, nextId, target, cmd, ret, err, exit, out,
                 ledger0, snap, lost, prev, target0, created, reader>>

NextTxFault ==
  \/ Next
  \/ BeginFails
  \/ CommitFails

\* the transaction of a batch can fail to begin and to commit
SpecTxFault == Init /\ [][NextTxFault]_vars

(***************************************************************************)
(* Directory trees.                                                        *)
(***************************************************************************)
\* a directory is made below the root, or a file is put into it, between
\* two runs
AddBelow ==
  /\ pc = "idle"
  /\ ~prev.set
  /\ Cardinality(dir) < MaxFiles
  /\ \E e \in Below \ dir :
       /\ \A d \in Directories \ {Root} :
            HasPrefix(Chars(e), Chars(d) \o <<"/">>) => d \in dir
       /\ dir' = dir \cup {e}
  /\ UNCHANGED <<ledger, nextId, target, pc, cmd, batch, cur, execErr, ret,
                 err, exit, out, executed, ledger0, snap, lost, faults,
                 prev, target0, created, reader>>

NextTree ==
  \/ Next
  \/ AddBelow

\* the migration directory can have a subdirectory
SpecTree == Init /\ [][NextTree]_vars

(***************************************************************************)
(* GetFileDetails on its own, over file names of every shape.              *)
(***************************************************************************)
\* the parts the file names given to the Reader are put together from
Markers == {<<>>, <<"V">>, <<"X">>}

Numbers ==
  { <<>>, <<"0">>, <<"1">>, <<"1", "2">>, <<"0", "1">>, <<"-", "1">>,
    <<"+", "1">>, <<"a">> }

Separators == {<<>>, <<"_">>, <<"_", "_">>}

Descriptions == {<<>>, <<"a">>, <<"a", "_", "_", "b">>, <<"a", ".", "b">>}

Tags == {<<>>, <<".", "u", "p">>, <<".", "d", "o", "w", "n">>, <<".", "x">>}

Extensions == {<<>>, <<".", "s", "q", "l">>, <<".", "t", "x", "t">>}

FileNames ==
  { m \o n \o u \o d \o t \o e :
      m \in Markers, n \in Numbers, u \in Separators, d \in Descriptions,
      t \in Tags, e \in Extensions }

InitReader ==
  /\ dir = {}
  /\ ledger = <<>>
  /\ nextId = 1
  /\ target = Zero
  /\ pc = "idle"
  /\ cmd = ""
  /\ batch = <<>>
  /\ cur = NoRecord
  /\ execErr = "nil"
  /\ ret = "nil"
  /\ err = "nil"
  /\ exit = 0
  /\ out = NoVersion
  /\ executed = <<>>
  /\ ledger0 = <<>>
  /\ snap = <<>>
  /\ lost = Zero
  /\ faults = 0
  /\ prev = NoReconcile
  /\ target0 = Zero
  /\ created = FALSE
  /\ \E name \in FileNames : reader = [NoRead EXCEPT !.name = name]

\* GetFileDetails(filePath) for a readable file of that name in the root
ReadFileName ==
  /\ ~reader.read
  /\ reader' = [reader EXCEPT
                  !.read = TRUE,
                  !.details = ParseFileName(InRoot(reader.name), "")]
  /\ UNCHANGED <<dir, ledger, nextId, target, pc, cmd, batch, cur, execErr,
                 ret, err, exit, out, executed, ledger0, snap, lost, faults,
                 prev, target0, created>>

NextReader == ReadFileName

SpecReader == InitReader /\ [][NextReader]_vars

(***************************************************************************)
(* Properties.                                                             *)
(***************************************************************************)
\* ids of the records of l that are outstanding in the given direction
OutstandingIds(l, direction) ==
  {r.ID : r \in {x \in Range(l) : ~x.Processed /\ x.MigrationType = direction}}

RecordOf(l, id) == CHOOSE r \in Range(l) : r.ID = id

StrictlyAscending(s) == \A i, j \in 1..Len(s) : i < j => s[i] < s[j]

StrictlyDescending(s) == \A i, j \in 1..Len(s) : i < j => s[i] > s[j]

\* ids whose execution in this run failed: handed to the target database,
\* which committed nothing for them
FailedIds == {id \in Range(executed) : target[id] = 0}

\* C1: up works through the UPGRADE records that are outstanding after the
\* reconciliation, in strictly ascending id order and without skipping one:
\* every record it executes is one of them (so never a DOWNGRADE record,
\* never a processed one), and an up that ends without error has executed
\* all of them.  (Where the batch ends when an execution fails is C4.)
C1_UpAppliesOutstandingUpgradesAscending ==
  cmd = "up" =>
    LET want == OutstandingIds(snap, "UPGRADE")
    IN  /\ Range(executed) \subseteq want
        /\ StrictlyAscending(executed)
        /\ \A i \in 1..Len(executed) : \A id \in want :
             id < executed[i] => \E j \in 1..(i - 1) : executed[j] = id
        /\ (pc = "done" /\ err = "nil" => Range(executed) = want)

\* an up that executed two upgrades and left an outstanding downgrade alone
C1_Witness ==
  /\ cmd = "up" /\ pc = "done" /\ err = "nil"
  /\ Len(executed) >= 2
  /\ OutstandingIds(snap, "DOWNGRADE") # {}

\* C2: down applies exactly the outstanding DOWNGRADE record whose version
\* is the version of the record GetCurrentVersion returned, and when there
\* is none it ends with not-found and executes nothing.
C2_DownAppliesDowngradeOfCurrentVersion ==
  cmd = "down" /\ pc = "done" /\ out.found =>
    LET want == {r \in Range(ledger0) : /\ ~r.Processed
                                        /\ r.MigrationType = "DOWNGRADE"
                                        /\ r.Version = out.rec.Version}
    IN  IF want = {}
        THEN err = "notfound" /\ executed = <<>>
        ELSE \E r \in want : executed = <<r.ID>>

\* C3: the current version version and down work with is the record with
\* the highest id among the UPGRADE records with succeeded = true, and
\* not-found when there is none.
C3_CurrentVersionIsLatestSucceededUpgrade ==
  cmd \in {"version", "down"} =>
    LET ok == {r \in Range(ledger0) : /\ r.MigrationType = "UPGRADE"
                                      /\ r.Success}
    IN  /\ out.found <=> ok # {}
        /\ out.found => out.rec \in ok /\ \A r \in ok : r.ID <= out.rec.ID

\* C4: when an execution of up fails, the batch ends with that record: it
\* ends processed and not succeeded, the outstanding upgrades with a larger
\* id are not executed and stay outstanding, and up ends with the error.
C4_UpStopsAtFirstFailure ==
  cmd = "up" /\ FailedIds # {} =>
    LET f == executed[Len(executed)]
    IN  /\ FailedIds = {f}
        /\ pc \in {"update", "done"}
        /\ pc = "done" =>
             /\ RecordOf(ledger, f).Processed
             /\ ~RecordOf(ledger, f).Success
             /\ err = "exec"
        /\ \A id \in OutstandingIds(snap, "UPGRADE") :
             id > f => /\ id \notin Range(executed)
                       /\ ~RecordOf(ledger, id).Processed

\* an up that failed with a later upgrade still outstanding
C4_Witness ==
  /\ cmd = "up" /\ pc = "done" /\ err = "exec"
  /\ \E id \in OutstandingIds(snap, "UPGRADE") : id > executed[Len(executed)]

\* C5: reset attempts the DOWNGRADE records that were outstanding when it
\* started, in strictly descending id order and whatever the outcome of
\* each: when it ends, all of them have been executed and are processed,
\* and it has executed nothing else.
C5_ResetAttemptsEveryDowngradeDescending ==
  cmd = "reset" =>
    LET want == OutstandingIds(ledger0, "DOWNGRADE")
    IN  /\ Range(executed) \subseteq want
        /\ StrictlyDescending(executed)
        /\ pc = "done" =>
             /\ Range(executed) = want
             /\ \A id \in want : RecordOf(ledger, id).Processed

\* a reset that went on after its first record failed
C5_Witness ==
  /\ cmd = "reset" /\ pc = "done"
  /\ Len(executed) >= 2
  /\ executed[1] \in FailedIds
  /\ \E r \in Range(ledger0) : r.MigrationType = "UPGRADE"

\* C6: a record that is processed is never executed again and its row
\* never changes again.
C6_ProcessedRecordsAreFinal ==
  [][\A i \in 1..Len(ledger) :
       ledger[i].Processed =>
         /\ Len(ledger') >= i
         /\ ledger'[i] = ledger[i]
         /\ target'[ledger[i].ID] = target[ledger[i].ID]
         /\ Len(executed') > Len(executed) =>
              executed'[Len(executed')] # ledger[i].ID]_vars

\* an up that executes a record while an earlier, failed upgrade is there
C6_Witness ==
  /\ cmd = "up" /\ executed # <<>>
  /\ \E r \in Range(ledger0) :
       r.Processed /\ ~r.Success /\ r.MigrationType = "UPGRADE"

\* C7 as claimed: the batch of a record is committed at most once, also
\* when ledger updates fail or the process stops before its ledger update.
C7_CommittedAtMostOnce == \A id \in Ids : target[id] <= 1

\* C7 as amended: the batch of a record is committed at most once more
\* than the number of its ledger updates that were lost after a commit.
C7_CommittedOncePerRecordedOutcome ==
  \A id \in Ids : target[id] <= 1 + lost[id]

\* a batch committed twice, its first ledger update lost
C7_Witness == \E id \in Ids : target[id] = 2 /\ lost[id] = 1

\* C8: ApplyMigration on a record leaves it processed, succeeded exactly
\* when the batch executed; a batch that failed leaves the target database
\* as it was and the record with a non-empty error, and its error is what
\* ApplyMigration returns.
C8_ApplyRecordsTheOutcome ==
  [][/\ pc = "apply" /\ pc' = "update" =>
          /\ execErr' = "exec" => target' = target
          /\ execErr' = "nil" => target'[cur'.ID] = target[cur'.ID] + 1
     /\ pc = "update" /\ pc' # "update" =>
          LET r == RecordOf(ledger', cur.ID)
          IN  /\ r.Processed
              /\ r.Success <=> execErr = "nil"
              /\ target' = target
              /\ ret' = execErr
              /\ execErr # "nil" => r.Error # "" /\ ~r.Success]_vars

\* a failed batch, recorded, with nothing committed for it
C8_Witness ==
  /\ pc \in {"apply", "done"} /\ ret = "exec"
  /\ \E r \in Range(ledger) :
       /\ r.ID = executed[Len(executed)]
       /\ r.Processed /\ ~r.Success /\ r.Error # "" /\ target[r.ID] = 0

\* an up run is past its reconciliation, which left the ledger snap
ReconcileEnded == cmd = "up"

ReconcileOk == ReconcileEnded /\ err \notin ReconcileErrors

\* C9: reconciling the directory the up before reconciled inserts no
\* record, changes none, and returns nil if the previous one did; no path
\* ever has two records, and after a reconciliation that returned nil
\* every file of the directory has exactly one.
C9_ReconcileIsIdempotent ==
  /\ \A i, j \in 1..Len(ledger) :
       ledger[i].FilePath = ledger[j].FilePath => i = j
  /\ ReconcileOk =>
       \A p \in dir :
         Cardinality({i \in 1..Len(snap) : snap[i].FilePath = p}) = 1
  /\ ReconcileEnded /\ prev.cmd = "up" /\ prev.dir = dir =>
       /\ snap = ledger0
       /\ prev.ok => ReconcileOk

\* a second reconciliation of a directory of two files
C9_Witness ==
  /\ ReconcileEnded /\ prev.cmd = "up" /\ prev.dir = dir /\ prev.ok
  /\ Cardinality(dir) >= 2

\* C10: an up whose reconciliation meets an invalid file name ends with the
\* invalid-naming error, the ledger as it was when the run started, and
\* nothing executed.
C10_InvalidNameLeavesLedgerUnmodified ==
  cmd = "up" /\ pc = "done" /\ err = "invalid" =>
    ledger = ledger0 /\ executed = <<>>

\* C11: no two records of the ledger have the same (version, direction);
\* an up whose reconciliation ends with the duplicate error met a file of the
\* directory whose (version, direction) a record already has: that file has
\* no record, and the records the run started with are as they were.
C11_VersionDirectionUnique ==
  /\ \A i, j \in 1..Len(ledger) :
       /\ ledger[i].Version = ledger[j].Version
       /\ ledger[i].MigrationType = ledger[j].MigrationType
       => i = j
  /\ cmd = "up" /\ pc = "done" /\ err = "duplicate" =>
       /\ Len(ledger) >= Len(ledger0)
       /\ SubSeq(ledger, 1, Len(ledger0)) = ledger0
       /\ \E p \in dir \ Directories :
            /\ DetailsOf[p].kind = "ok"
            /\ \A r \in Range(ledger) : r.FilePath # p
            /\ \E r \in Range(ledger) :
                 /\ r.Version = DetailsOf[p].Version
                 /\ r.MigrationType = DetailsOf[p].MigrationType
  /\ ReconcileOk =>
       \A p, q \in dir \ Directories :
         /\ DetailsOf[p].Version = DetailsOf[q].Version
         /\ DetailsOf[p].MigrationType = DetailsOf[q].MigrationType
         => p = q

\* an up that met a second file of a pair whose first record was applied
C11_Witness ==
  /\ cmd = "up" /\ pc = "done" /\ err = "duplicate"
  /\ \E r \in Range(ledger0) : r.Processed /\ r.Version = 1

\* C12: an up or a down that ends with an error (of the reconciliation, of
\* an execution, of the ledger, or not-found) exits with a non-zero status.
C12_TerminalErrorExitsNonZero ==
  cmd \in {"up", "down"} /\ pc = "done" /\ err # "nil" => exit # 0

\* C13: a version, up, down or reset run that follows a run of the same
\* command, the directory being the same, leaves the ledger and the target
\* database as the first run left them.
C13_CommandsAreIdempotent ==
  /\ cmd \in {"version", "up", "down", "reset"}
  /\ prev.cmd = cmd /\ prev.dir = dir
  /\ pc = "done"
  => ledger = ledger0 /\ target = target0

\* C14: a run with a command other than version, up, down and reset ends
\* with the usage message at once: it inserts no record, draws no id,
\* executes nothing and updates no record, so the ledger records and the
\* target database stay as they were when it started.
C14_UnrecognizedChangesNothing ==
  [][/\ cmd' = "other" =>
          /\ pc' = "done"
          /\ err' = "usage"
          /\ executed' = <<>>
          /\ ledger' = ledger0'
          /\ target' = target0'
     /\ cmd' = "other" /\ cmd # "other" =>
          /\ ledger' = ledger
          /\ nextId' = nextId
          /\ target' = target]_vars

\* an unrecognized command run over a directory with an unregistered file
\* and a ledger with an outstanding downgrade
C14_Witness ==
  /\ cmd = "other" /\ pc = "done"
  /\ Unregistered # {}
  /\ OutstandingIds(ledger, "DOWNGRADE") # {}

\* C15: when up executes an UPGRADE record, every UPGRADE record with a
\* smaller id has succeeded, whichever run executed it.
C15_UpNeverGoesPastAFailedUpgrade ==
  cmd = "up" =>
    \A i \in 1..Len(executed) : \A r \in Range(ledger) :
      r.MigrationType = "UPGRADE" /\ r.ID < executed[i] => r.Success

\* largest version of the file names of the convention
MaxVersion == 12

\* the file names of the form V{version}__{description}.{up|down}.sql, the
\* version a non-negative integer and the description free of dots and of
\* double underscores
ConventionNames ==
  { FileNameOf([Version |-> v, Description |-> d, MigrationType |-> t]) :
      v \in 0..MaxVersion,
      d \in {x \in Descriptions :
               Len(Split(x, <<".">>)) = 1 /\ Len(Split(x, <<"_", "_">>)) = 1},
      t \in {"UPGRADE", "DOWNGRADE"} }

\* C16: GetFileDetails returns the details of a file exactly when its name
\* is of the convention, and the invalid-name error for every other name; it
\* never panics; the fields it returns give back the name.
C16_ReaderAcceptsExactlyTheConvention ==
  reader.read =>
    /\ reader.details.kind \in {"ok", "invalid"}
    /\ reader.details.kind = "ok" <=> reader.name \in ConventionNames
    /\ reader.details.kind = "ok" => FileNameOf(reader.details) = reader.name

\* C17: an up over a directory with a subdirectory that holds a file, all
\* of whose regular files (at any depth) have valid names and different
\* (version, direction) pairs, reconciles without error and leaves exactly
\* one record for each regular file and none for a directory.
C17_SubdirectoriesAreSkipped ==
  /\ cmd = "up"
  /\ dir \cap Directories # {}
  /\ \A d \in dir \cap Directories : \E p \in dir \ Directories :
       HasPrefix(Chars(p), Chars(d) \o <<"/">>)
  /\ \A p \in dir \ Directories : DetailsOf[p].kind = "ok"
  /\ \A p, q \in dir \ Directories :
       /\ DetailsOf[p].Version = DetailsOf[q].Version
       /\ DetailsOf[p].MigrationType = DetailsOf[q].MigrationType
       => p = q
  => /\ err \notin ReconcileErrors
     /\ \A p \in dir \ Directories :
          Cardinality({i \in 1..Len(snap) : snap[i].FilePath = p}) = 1
     /\ \A r \in Range(snap) : r.FilePath \notin Directories

\* C18: in every ledger a record that is not processed is not succeeded
\* and has no error, and a succeeded record is processed; a record is
\* inserted as not processed and not succeeded.
C18_RecordFlagsAreConsistent ==
  [][\A i \in 1..Len(ledger') :
       /\ ~ledger'[i].Processed =>
            ~ledger'[i].Success /\ ledger'[i].Error = ""
       /\ ledger'[i].Success => ledger'[i].Processed
       /\ i > Len(ledger) =>
            ~ledger'[i].Processed /\ ~ledger'[i].Success]_vars

\* a ledger with an outstanding, a failed and a succeeded record, after a
\* ledger update was lost
C18_Witness ==
  /\ \E r \in Range(ledger) : ~r.Processed
  /\ \E r \in Range(ledger) : r.Processed /\ ~r.Success /\ r.Error # ""
  /\ \E r \in Range(ledger) : r.Success
  /\ faults > 0

\* C19: the ledger update of ApplyMigration sets the execution time, the
\* processed and succeeded flags, the error and updatedAt of the record it
\* is given, updatedAt being the time of the update and no longer the
\* creation time; it leaves the other fields of that record and all other
\* records as they were.
C19_UpdateSetsFiveFieldsAndUpdatedAt ==
  [][pc = "update" /\ pc' # "update" =>
       LET old == RecordOf(ledger, cur.ID)
           new == RecordOf(ledger', cur.ID)
       IN  /\ new.ExecutionTime = "elapsed"
           /\ new.Processed
           /\ new.Success <=> execErr = "nil"
           /\ new.Error = (IF execErr = "nil" THEN "" ELSE execErr)
           /\ new.UpdatedAt = "update"
           /\ new.UpdatedAt # new.CreatedAt
           /\ new = [old EXCEPT !.ExecutionTime = new.ExecutionTime,
                                !.Processed = new.Processed,
                                !.Success = new.Success,
                                !.Error = new.Error,
                                !.UpdatedAt = new.UpdatedAt]
           /\ Len(ledger') = Len(ledger)
           /\ \A i \in 1..Len(ledger) :
                ledger[i].ID # cur.ID => ledger'[i] = ledger[i]]_vars

\* C20: a record is marked succeeded only if its batch was committed to the
\* target database; when ApplySchemaMigration committed nothing for the
\* record it was given, ApplyMigration has returned an error.
C20_SucceededOnlyIfCommitted ==
  /\ \A r \in Range(ledger) : r.Success => target[r.ID] >= 1
  /\ pc \in {"apply", "done"} /\ executed # <<>> =>
       LET id == executed[Len(executed)]
       IN  target[id] = target0[id] => ret # "nil"

=============================================================================
